---- MODULE Spec2Model ----
(***************************************************************************)
(* QuantAgent: the four agent nodes (indicator, pattern, trend, decision)  *)
(* and their retry helpers, modelled as one run of one node over a Shared  *)
(* State Record.  The reasoning backend and the auxiliary tools are the    *)
(* environment: every answer, exception, tool result and in-place mutation *)
(* of a tool argument is a nondeterministic choice.                        *)
(***************************************************************************)
EXTENDS Integers, Sequences, FiniteSets, TLC

VARIABLES
    agent,          \* which node function runs
    pc,             \* position inside the node function
    state,          \* the Shared State Record handed to the node
    messages,       \* the local name `messages`
    aliased,        \* TRUE while `messages` is the very list held in state["messages"]
    stage,          \* indicator: "first" (Step 1/2) or "loop" (Step 3)
    iteration,      \* indicator: the loop counter `iteration`
    final_response, \* indicator: `final_response`
    calls,          \* the tool_calls of the response being executed
    callIdx,        \* index of the call the for-loop is at
    tool_args,      \* the args mapping of the current call (mutable, shared by retries)
    toolAttempt,    \* pattern: attempts made by invoke_tool_with_retry for the current call
    toolWaits,      \* pattern: sleeps made by invoke_tool_with_retry for the current call
    lastTool,       \* the last tool invocation: the tool, the kline_data it saw, the image it gave
    nTool,          \* tool invocations made so far
    noImageRun,     \* how many of the latest tool results in a row lack the image
    image_b64,      \* pattern_image_b64 / trend_image_b64
    env,            \* the running or last finished invoke_with_retry call
    lastCall,       \* the last backend invocation: which llm, which messages
    nChain,         \* invocations of the tool-bound chain (llm.bind_tools)
    nGraph,         \* invocations of graph_llm / of the decision llm
    nCycles,        \* backend responses whose requested tools were executed
    error,          \* the exception that left the node, if any
    out,            \* the mapping the node returned
    retryRuns       \* the two invoke_with_retry helpers run side by side on one operation

vars == << agent, pc, state, messages, aliased, stage, iteration, final_response,
           calls, callIdx, tool_args, toolAttempt, toolWaits, lastTool, nTool, noImageRun,
           image_b64, env, lastCall, nChain, nGraph, nCycles, error, out, retryRuns >>

(***************************************************************************)
(* Bounds of the model.                                                    *)
(***************************************************************************)
MaxPrior == 1       \* longest transcript already in state["messages"]
MaxToolCalls == 2   \* most tool_calls one backend response carries
MaxPeerTurns == 1   \* most turns a concurrently running agent appends
MaxOutcomes == 3    \* outcomes scripted for an operation run under both retry helpers
MaxMutations == 1   \* tool calls of one run whose argument the tool changes in place

(***************************************************************************)
(* Program constants.                                                      *)
(***************************************************************************)
max_iterations == 5         \* indicator_agent.py:72
PatternRetries == 3         \* pattern_agent.py:58  invoke_with_retry(retries=3)
TrendRetries == 3           \* trend_agent.py:14    invoke_with_retry(retries=3)
ToolRetries == 3            \* pattern_agent.py:10  invoke_tool_with_retry(retries=3)

(***************************************************************************)
(* Values.                                                                 *)
(***************************************************************************)
None == "<None>"            \* Python None
Absent == "<absent>"        \* a key the mapping does not hold

\* Python truthiness of an optional string.
Truthy(x) == x \notin {None, Absent, ""}

\* Text contents a backend can answer with: empty, whitespace-only, text.
Contents == {"", " ", "txt"}

\* str.strip()
Strip(c) == IF c = " " THEN "" ELSE c

\* kline_data: a sequence of candles (each candle stands for one OHLCV record).
KlineDatasets == {<< 1 >>, << 1, 2 >>}
BogusKline == << 9 >>

\* copy.deepcopy: an equal value that shares nothing with the original; the
\* state is a separate variable, so a change to the copy never reaches it.
DeepCopy(x) == x

\* A tool that mutates the kline_data it is given drops the last candle.
MutateKline(k) == IF Len(k) = 0 THEN << 0 >> ELSE SubSeq(k, 1, Len(k) - 1)

Max(S) == CHOOSE x \in S : \A y \in S : y <= x

(***************************************************************************)
(* Messages (langchain_core.messages).                                     *)
(***************************************************************************)
Msg(kind, content, image, tcs, id) ==
    [kind |-> kind, content |-> content, image |-> image,
     tool_calls |-> tcs, tool_call_id |-> id]

HumanMessage(content) == Msg("human", content, None, << >>, << >>)
SystemMessage(content) == Msg("system", content, None, << >>, << >>)
AIMessage(content, tcs) == Msg("ai", content, None, tcs, << >>)
ToolMessage(id, content) == Msg("tool", content, None, << >>, id)
\* HumanMessage(content=image_prompt): a list content (text part + image_url part)
ImagePromptMessage(img) == Msg("human", "image_prompt", img, << >>, << >>)
NoResponse == Msg("none", "", None, << >>, << >>)

\* hasattr(msg, "tool_calls"): AIMessage declares the field (default []),
\* HumanMessage, SystemMessage and ToolMessage do not.
HasAttrToolCalls(m) == m.kind = "ai"

SeedMessage == HumanMessage("seed")
DefaultReport == "default"
DefaultReportNoResponse == "default_no_response"

\* The tools each agent binds.
Tools(a) ==
    CASE a = "indicator" -> {"compute_macd", "compute_rsi", "compute_roc",
                             "compute_stoch", "compute_willr"}
      [] a = "pattern" -> {"generate_kline_image"}
      [] a = "trend" -> {"generate_trend_image"}
      [] OTHER -> {}

ImageKey(a) == IF a = "pattern" THEN "pattern_image" ELSE "trend_image"

\* dict.get(key)
Get(d, key) == IF key \in DOMAIN d THEN d[key] ELSE None

\* tool_args["kline_data"] = value
SetKline(args, value) ==
    [k \in (DOMAIN args) \cup {"kline_data"} |->
        IF k = "kline_data" THEN value ELSE args[k]]

\* json.dumps(tool_result): the text of a ToolMessage, never empty.
JsonDumps(r) ==
    IF "pattern_image" \in DOMAIN r THEN "{pattern_image:" \o r.pattern_image \o "}"
    ELSE IF "trend_image" \in DOMAIN r THEN "{trend_image:" \o r.trend_image \o "}"
    ELSE IF "value" \in DOMAIN r THEN "{value}"
    ELSE "{error}"

(***************************************************************************)
(* The environment: the Shared State Record a node is handed, the answers  *)
(* of the backend, the behaviour of the tools.                             *)
(***************************************************************************)
Agents == {"indicator", "pattern", "trend", "decision"}

PriorMessages == {HumanMessage("txt"), AIMessage("txt", << >>)}

PriorTranscripts ==
    UNION {[1..n -> PriorMessages] : n \in 0..MaxPrior}

BaseState ==
    [kline_data |-> << 1, 2 >>, stock_name |-> "BTC", time_frame |-> "15min",
     messages |-> << >>, pattern_image |-> Absent, trend_image |-> Absent,
     indicator_report |-> Absent, pattern_report |-> Absent,
     trend_report |-> Absent]

ReportInputs == {Absent, "", "txt"}
ImageInputs == {Absent, "", "IMG0"}

\* The records each node is started on.
InitialStates(a) ==
    CASE a = "indicator" ->
            {[BaseState EXCEPT !.kline_data = k, !.messages = m] :
                k \in KlineDatasets, m \in PriorTranscripts}
      [] a = "pattern" ->
            {[BaseState EXCEPT !.pattern_image = i, !.messages = m] :
                i \in ImageInputs, m \in PriorTranscripts}
      [] a = "trend" ->
            {[BaseState EXCEPT !.trend_image = i, !.kline_data = k] :
                i \in ImageInputs, k \in KlineDatasets}
      [] OTHER ->
            {[BaseState EXCEPT !.indicator_report = r1, !.pattern_report = r2,
                               !.trend_report = r3] :
                r1 \in ReportInputs, r2 \in ReportInputs, r3 \in ReportInputs}

\* What a backend answer looks like: its text, how many tool invocations it
\* requests, and whether the last of them names a tool the agent does not have.
ResponseShapes ==
    {[content |-> c, ncalls |-> 0, unknown |-> FALSE] : c \in Contents}
    \cup {[content |-> "", ncalls |-> n, unknown |-> FALSE] : n \in {1, MaxToolCalls}}
    \cup {[content |-> "txt", ncalls |-> n, unknown |-> TRUE] : n \in {1, MaxToolCalls}}

ToolNameAt(a, i) ==
    CASE a = "indicator" -> IF i % 2 = 1 THEN "compute_macd" ELSE "compute_rsi"
      [] a = "pattern" -> "generate_kline_image"
      [] OTHER -> "generate_trend_image"

\* The args the backend supplies: a kline_data of its own, or none at all.
BackendArgsAt(i) ==
    IF i % 2 = 1 THEN [period |-> 14, kline_data |-> BogusKline]
    ELSE [period |-> 14]

\* The response object of the respNo-th invocation of a chain.
ResponseOf(shape, a, respNo) ==
    AIMessage(shape.content,
        [i \in 1..shape.ncalls |->
            [id |-> << respNo, i >>,
             name |-> IF shape.unknown /\ i = shape.ncalls
                      THEN "no_such_tool" ELSE ToolNameAt(a, i),
             args |-> BackendArgsAt(i)]])

\* Exceptions a backend invocation can raise.
RateLimit == [type |-> "RateLimitError", text |-> "rate limit exceeded"]
BackendErrors ==
    {RateLimit,
     [type |-> "Exception", text |-> "connection reset"],
     [type |-> "Exception", text |-> "At least one message is required"]}

\* What a tool can answer.
ToolResults(a) ==
    CASE a = "indicator" -> {[value |-> "series"]}
      [] a = "pattern" -> {[pattern_image |-> "IMG1"], [pattern_image |-> ""],
                           [error |-> "no data"]}
      [] OTHER -> {[trend_image |-> "IMG1"], [error |-> "no data"]}

NoOutput == [returned |-> FALSE]
NoError == [type |-> "none", text |-> ""]
\* The outcome of a tool invocation that raises instead of answering.
ToolRaises == [raises |-> TRUE]
ToolOutcomes(a) == ToolResults(a) \cup {ToolRaises}
FreshEnv == [site |-> "none", attempts |-> 0, waits |-> 0, fails |-> 0,
             status |-> "idle", result |-> NoResponse, lastError |-> NoError]
NoTool == [name |-> "none", seen |-> << >>, image |-> None]
NoCall == [llm |-> "none", messages |-> << >>]
\* No side-by-side run of the helpers is under way.
NoRetryRuns == [script |-> << >>]

Init ==
    /\ agent \in Agents
    /\ state \in InitialStates(agent)
    /\ pc = "start"
    /\ messages = << >>
    /\ aliased = FALSE
    /\ stage = "first"
    /\ iteration = 0
    /\ final_response = NoResponse
    /\ calls = << >>
    /\ callIdx = 0
    /\ tool_args = [period |-> 0]
    /\ toolAttempt = 0
    /\ toolWaits = 0
    /\ lastTool = NoTool
    /\ nTool = 0
    /\ noImageRun = 0
    /\ image_b64 = None
    /\ env = FreshEnv
    /\ lastCall = NoCall
    /\ nChain = 0
    /\ nGraph = 0
    /\ nCycles = 0
    /\ error = NoError
    /\ out = NoOutput
    /\ retryRuns = NoRetryRuns

\* `messages.append(m)`: when `messages` is the list held in the state, the
\* state's list grows with it.
StateAfterAppend(ms) ==
    IF aliased THEN [state EXCEPT !.messages = ms] ELSE state

\* An exception leaves the node: nothing is returned.
Raise(e) ==
    /\ pc' = "failed"
    /\ error' = e

(***************************************************************************)
(* The tool gateway steps shared by the three agents.                      *)
(***************************************************************************)
\* A lookup that settles for some tool of the list when the name is unknown.
ToolFound_Substitute(a, name) == TRUE

\* next(t for t in tools if t.name == tool_name): StopIteration when no tool
\* of the list has the name.
ToolFound(a, name) == name \in Tools(a)

StopIteration == [type |-> "StopIteration", text |-> ""]
ToolError == [type |-> "ToolError", text |-> "tool failed"]

\* tool_fn.invoke(args): the tool sees args as they are at the call, and may
\* change the kline_data it was handed in place.
ArgsAfterTool(args, mut) ==
    IF mut THEN SetKline(args, MutateKline(args.kline_data)) ELSE args

\* tool_args = call["args"]: tool_args is the very mapping held by the tool
\* call inside the response object, which is already in the transcript.  What
\* is assigned into it, and what a tool does to it in place, shows in every
\* list that holds the response: here the tool calls tcs, the call tagged id
\* now holding the args a.
WithArgs(tcs, id, a) ==
    IF tcs = << >> THEN << >>
    ELSE [j \in 1..Len(tcs) |->
            IF tcs[j].id = id THEN [tcs[j] EXCEPT !.args = a] ELSE tcs[j]]

MsgWithArgs(m, id, a) == [m EXCEPT !.tool_calls = WithArgs(m.tool_calls, id, a)]

RecordArgs(ms, id, a) ==
    IF ms = << >> THEN << >>
    ELSE [i \in 1..Len(ms) |-> MsgWithArgs(ms[i], id, a)]

\* The tool calls of the transcript whose kline_data a tool has changed: the
\* value is neither the state's (as assigned) nor the backend's.
MutatedCalls(ms) ==
    {<< i, j >> \in (1..Len(ms)) \X (1..MaxToolCalls) :
        /\ j <= Len(ms[i].tool_calls)
        /\ "kline_data" \in DOMAIN ms[i].tool_calls[j].args
        /\ ms[i].tool_calls[j].args.kline_data \notin {state.kline_data, BogusKline}}

\* Whether the tool about to run may change its argument in place.
MutOptions(ms) ==
    IF Cardinality(MutatedCalls(ms)) < MaxMutations THEN BOOLEAN ELSE {FALSE}

\* The count of latest results in a row that lack the agent's image.
NoImageRunAfter(run, result) ==
    IF result = ToolRaises THEN run
    ELSE IF Truthy(Get(result, ImageKey(agent))) THEN 0 ELSE run + 1

LogEntry(name, args, result) ==
    [name |-> name, seen |-> Get(args, "kline_data"),
     image |-> Get(result, ImageKey(agent))]

(***************************************************************************)
(* indicator_agent_node                                                    *)
(***************************************************************************)
\* An off-by-one loop guard.
LoopContinues_OneMore(it) == it <= max_iterations

\* while iteration < max_iterations
LoopContinues(it) == it < max_iterations

\* The reversed(messages) scan of the fallback: the content of the most
\* recent message that has non-blank text and no tool_calls attribute.
\* (isinstance(msg.content, str) fails for the list content of an image prompt.)
ScanQualifies(m) ==
    /\ Truthy(m.content)
    /\ m.image = None
    /\ Strip(m.content) # ""
    /\ ~HasAttrToolCalls(m)

FallbackScan(ms, dflt) ==
    LET hits == {i \in 1..Len(ms) : ScanQualifies(ms[i])}
    IN IF hits = {} THEN dflt ELSE ms[Max(hits)].content

\* "Extract content with fallback"
ReportContent(final, ms) ==
    IF final # NoResponse
    THEN IF ~Truthy(final.content) \/ Strip(final.content) = ""
         THEN FallbackScan(ms, final.content)
         ELSE final.content
    ELSE DefaultReportNoResponse

\* report_content if report_content else "..."
IndicatorReport(final, ms) ==
    IF Truthy(ReportContent(final, ms)) THEN ReportContent(final, ms)
    ELSE DefaultReport

IndicatorReturn(final, ms) ==
    /\ pc' = "done"
    /\ out' = [returned |-> TRUE, messages |-> ms,
               indicator_report |-> IndicatorReport(final, ms)]

\* time_frame = state["time_frame"]; messages = state.get("messages", []);
\* if not messages: messages = [HumanMessage(...)]
IndicatorStart ==
    /\ UNCHANGED retryRuns
    /\ agent = "indicator"
    /\ pc = "start"
    /\ IF state.messages = << >>
       THEN messages' = << SeedMessage >> /\ aliased' = FALSE
       ELSE messages' = state.messages /\ aliased' = TRUE
    /\ pc' = "invoke"
    /\ UNCHANGED << agent, state, stage, iteration, final_response, calls, callIdx,
                    tool_args, toolAttempt, toolWaits, lastTool, nTool, noImageRun, image_b64, env,
                    lastCall, nChain, nGraph, nCycles, error, out >>

\* Step 1 (ai_response = chain.invoke(messages)) and the head of each
\* iteration of Step 3 (final_response = chain.invoke(messages)).  The call
\* blocks: `peer` is what a concurrently running node appended to the list
\* `messages` names while the call was open (nothing when the node runs
\* alone); the backend was sent the list as it was when the call was made,
\* the response is appended to the list as it is when the call returns.
IndicatorInvokeStep(peer) ==
    /\ UNCHANGED retryRuns
    /\ agent = "indicator"
    /\ pc = "invoke"
    /\ nChain' = nChain + 1
    /\ lastCall' = [llm |-> "chain", messages |-> messages]
    /\ iteration' = IF stage = "loop" THEN iteration + 1 ELSE iteration
    /\ LET held == messages \o peer
       IN \/ \E e \in BackendErrors :
               /\ Raise(e)
               /\ messages' = held
               /\ state' = StateAfterAppend(held)
               /\ UNCHANGED << stage, final_response, calls, callIdx, out >>
          \/ \E shape \in ResponseShapes :
               LET resp == ResponseOf(shape, agent, nChain + 1)
                   ms == Append(held, resp)
               IN /\ messages' = ms
                  /\ state' = StateAfterAppend(ms)
                  /\ final_response' = IF stage = "loop" THEN resp ELSE final_response
                  /\ IF resp.tool_calls # << >>
                     THEN /\ pc' = "tools"
                          /\ calls' = resp.tool_calls
                          /\ callIdx' = 1
                          /\ UNCHANGED << stage, out >>
                     ELSE /\ calls' = << >>
                          /\ callIdx' = 0
                          /\ IF stage = "first"
                             THEN pc' = "invoke" /\ stage' = "loop" /\ UNCHANGED out
                             ELSE IndicatorReturn(resp, ms) /\ UNCHANGED stage
                  /\ UNCHANGED error
    /\ UNCHANGED << agent, aliased, tool_args, toolAttempt, toolWaits, lastTool, nTool, noImageRun,
                    image_b64, env, nGraph, nCycles >>

\* The node running alone: nothing is appended while the call is open.
IndicatorInvoke ==
    /\ pc = "invoke"
    /\ IndicatorInvokeStep(<< >>)

\* One pass of `for call in ....tool_calls:` (Step 2 and the tail of Step 3).
IndicatorTool ==
    /\ UNCHANGED retryRuns
    /\ agent = "indicator"
    /\ pc = "tools"
    /\ LET call == calls[callIdx]
           args == SetKline(call.args, DeepCopy(state.kline_data))
           given == RecordArgs(messages, call.id, args)
       IN IF ~ToolFound(agent, call.name)
          THEN /\ Raise(StopIteration)
               /\ tool_args' = args
               /\ calls' = WithArgs(calls, call.id, args)
               /\ final_response' = MsgWithArgs(final_response, call.id, args)
               /\ messages' = given
               /\ state' = StateAfterAppend(given)
               /\ UNCHANGED << stage, callIdx, lastTool, nTool, noImageRun, nCycles, out >>
          ELSE \E result \in ToolOutcomes(agent), mut \in MutOptions(given) :
                 LET after == ArgsAfterTool(args, mut)
                     seen == RecordArgs(messages, call.id, after)
                     final == MsgWithArgs(final_response, call.id, after)
                 IN
                 /\ tool_args' = after
                 /\ calls' = WithArgs(calls, call.id, after)
                 /\ final_response' = final
                 /\ lastTool' = LogEntry(call.name, args, result)
                 /\ nTool' = nTool + 1
                 /\ noImageRun' = NoImageRunAfter(noImageRun, result)
                 /\ nCycles' = IF callIdx = 1 THEN nCycles + 1 ELSE nCycles
                 /\ IF result = ToolRaises
                    THEN /\ Raise(ToolError)
                         /\ messages' = seen
                         /\ state' = StateAfterAppend(seen)
                         /\ UNCHANGED << stage, callIdx, out >>
                    ELSE LET ms == Append(seen, ToolMessage(call.id, JsonDumps(result)))
                         IN /\ messages' = ms
                            /\ state' = StateAfterAppend(ms)
                            /\ UNCHANGED error
                            /\ IF callIdx < Len(calls)
                               THEN /\ callIdx' = callIdx + 1
                                    /\ UNCHANGED << pc, stage, out >>
                               ELSE /\ callIdx' = 0
                                    /\ IF stage = "first" \/ LoopContinues(iteration)
                                       THEN pc' = "invoke" /\ stage' = "loop"
                                            /\ UNCHANGED out
                                       ELSE IndicatorReturn(final, ms)
                                            /\ UNCHANGED stage
    /\ UNCHANGED << agent, aliased, iteration, toolAttempt,
                    toolWaits, image_b64, env, lastCall, nChain, nGraph >>

(***************************************************************************)
(* invoke_with_retry (pattern_agent.py, trend_agent.py)                    *)
(***************************************************************************)
Retries(a) == IF a = "pattern" THEN PatternRetries ELSE TrendRetries

\* Helpers that both sleep after every failed attempt, the last included.
SleepsAfterFailure_Always(a, attempt) == TRUE

\* Is the failed attempt number `attempt` (0-based, as in range(retries))
\* followed by time.sleep?  The pattern agent's helper sleeps in both except
\* clauses; the trend agent's sleeps only `if attempt < retries - 1`.
SleepsAfterFailure(a, attempt) ==
    IF a = "pattern" THEN TRUE ELSE attempt < Retries(a) - 1

\* A loop that allows one attempt too many.
RetryExhausted_OneMore(a, made) == made > Retries(a)

\* `for attempt in range(retries)` is over once `made` attempts were made.
RetryExhausted(a, made) == made >= Retries(a)

\* raise RuntimeError("超过最大重试次数")  ("exceeded maximum retry attempts")
RetryError == [type |-> "RuntimeError", text |-> "exceeded maximum retry attempts"]
\* raise RuntimeError("多次重试后仍未生成图像")  ("repeated retries failed to produce image")
ImageError == [type |-> "RuntimeError",
               text |-> "repeated retries failed to produce image"]

\* str.lower()
Lower(t) == IF t = "At least one message is required"
            THEN "at least one message is required" ELSE t

\* "at least one message" in error_str.lower()
MentionsAtLeastOneMessage(e) ==
    Lower(e.text) \in {"at least one message is required", "at least one message"}

(***************************************************************************)
(* pattern_agent_node and trend_agent_node                                 *)
(***************************************************************************)
Sites == {"phaseA", "grounded", "human_only", "fallback"}

\* A test for None instead of a truth test: an empty string passes.
HasImage_NotNone(img) == img \notin {None, Absent}

\* `if not pattern_image_b64` / `if pattern_image_b64` (resp. trend_image_b64)
HasImage(img) == Truthy(img)

\* messages = [SystemMessage(...), human_msg]
GroundedMessages(img) == << SystemMessage("grounded"), ImagePromptMessage(img) >>

\* The messages a site hands to the backend.
SentMessages(site, ms) == IF site = "human_only" THEN << ms[2] >> ELSE ms

\* Which backend a site invokes: the tool-bound chain or graph_llm.
SiteLlm(site) == IF site \in {"phaseA", "fallback"} THEN "chain" ELSE "graph_llm"

\* graph_llm has no tools bound: its answers carry no tool_calls.
SiteShapes(site) ==
    IF SiteLlm(site) = "chain" THEN ResponseShapes
    ELSE {sh \in ResponseShapes : sh.ncalls = 0}

\* A return statement that also fills in the other artifact agent's report.
AgentReturn_WrongField(a, ms, final, img) ==
    /\ pc' = "done"
    /\ out' = [returned |-> TRUE, messages |-> Append(ms, final),
               pattern_report |-> final.content,
               trend_report |-> final.content]

\* The return statement of the two nodes.
AgentReturn(a, ms, final, img) ==
    /\ pc' = "done"
    /\ out' = IF a = "pattern"
              THEN [returned |-> TRUE, messages |-> Append(ms, final),
                    pattern_report |-> final.content]
              ELSE [returned |-> TRUE, messages |-> Append(ms, final),
                    trend_report |-> final.content,
                    trend_image |-> img,
                    trend_image_filename |-> "trend_graph.png",
                    trend_image_description |->
                        IF HasImage(img) THEN "trend chart" ELSE None]

\* After Phase A: `if pattern_image_b64:` builds the grounded messages,
\* `else:` goes to the chain again.
AfterPhaseA(img, ms) ==
    IF HasImage(img)
    THEN /\ messages' = GroundedMessages(img)
         /\ aliased' = FALSE
         /\ state' = IF aliased THEN [state EXCEPT !.messages = ms] ELSE state
         /\ pc' = "grounded"
    ELSE /\ messages' = ms
         /\ state' = IF aliased THEN [state EXCEPT !.messages = ms] ELSE state
         /\ pc' = "fallback"
         /\ UNCHANGED aliased

\* A slip of the pen: both agents read "pattern_image".
StateImage_WrongKey(a, st) ==
    IF st.pattern_image = Absent THEN None ELSE st.pattern_image

\* state.get("pattern_image") / state.get("trend_image")
StateImage(a, st) ==
    IF st[ImageKey(a)] = Absent THEN None ELSE st[ImageKey(a)]

\* pattern_image_b64 = state.get("pattern_image"); messages = state.get("messages", [])
\* trend_image_b64 = state.get("trend_image"); messages = []
AgentStart ==
    /\ UNCHANGED retryRuns
    /\ agent \in {"pattern", "trend"}
    /\ pc = "start"
    /\ LET img == StateImage(agent, state)
       IN /\ image_b64' = img
          /\ IF HasImage(img)
             THEN /\ messages' = GroundedMessages(img)
                  /\ aliased' = FALSE
                  /\ pc' = "grounded"
             ELSE /\ pc' = "phaseA"
                  /\ IF agent = "pattern"
                     THEN messages' = state.messages /\ aliased' = TRUE
                     ELSE /\ messages' = << SystemMessage("trend"), HumanMessage("kline") >>
                          /\ aliased' = FALSE
    /\ UNCHANGED << agent, state, stage, iteration, final_response, calls, callIdx,
                    tool_args, toolAttempt, toolWaits, lastTool, nTool, noImageRun, env, lastCall,
                    nChain, nGraph, nCycles, error, out >>

\* One attempt of invoke_with_retry at one of its four call sites, with what
\* follows its return or its raise up to the next external call.  As in the
\* indicator, `peer` is what a concurrently running node appended to the list
\* `messages` names while the backend call was open.
RetryAttemptStep(peer) ==
    /\ UNCHANGED retryRuns
    /\ agent \in {"pattern", "trend"}
    /\ pc \in Sites
    /\ LET cur == IF env.status = "running" THEN env
                  ELSE [FreshEnv EXCEPT !.site = pc, !.status = "running"]
           made == cur.attempts + 1
           sent == SentMessages(pc, messages)
           held == messages \o peer
       IN /\ lastCall' = [llm |-> SiteLlm(pc), messages |-> sent]
          /\ nChain' = IF SiteLlm(pc) = "chain" THEN nChain + 1 ELSE nChain
          /\ nGraph' = IF SiteLlm(pc) = "graph_llm" THEN nGraph + 1 ELSE nGraph
          /\ \/ \E shape \in SiteShapes(pc) :
                  LET resp == ResponseOf(shape, agent, nChain + 1)
                  IN /\ env' = [cur EXCEPT !.attempts = made, !.status = "returned",
                                           !.result = resp]
                     /\ UNCHANGED error
                     /\ IF pc = "phaseA"
                        THEN LET ms == Append(held, resp)
                             IN IF resp.tool_calls # << >>
                                THEN /\ messages' = ms
                                     /\ state' = StateAfterAppend(ms)
                                     /\ pc' = "tools"
                                     /\ calls' = resp.tool_calls
                                     /\ callIdx' = 1
                                     /\ UNCHANGED << aliased, out >>
                                ELSE /\ AfterPhaseA(image_b64, ms)
                                     /\ UNCHANGED << calls, callIdx, out >>
                        ELSE /\ AgentReturn(agent, held, resp, image_b64)
                             /\ messages' = held
                             /\ state' = StateAfterAppend(held)
                             /\ UNCHANGED << aliased, calls, callIdx >>
             \/ \E e \in BackendErrors :
                  LET slept == IF SleepsAfterFailure(agent, cur.attempts)
                               THEN cur.waits + 1 ELSE cur.waits
                      failed == [cur EXCEPT !.attempts = made, !.waits = slept,
                                            !.fails = cur.fails + 1,
                                            !.lastError = e]
                  IN /\ messages' = held
                     /\ state' = StateAfterAppend(held)
                     /\ UNCHANGED << aliased, calls, callIdx, out >>
                     /\ IF ~RetryExhausted(agent, made)
                        THEN env' = failed /\ UNCHANGED << pc, error >>
                        ELSE /\ env' = [failed EXCEPT !.status = "raised"]
                             /\ IF pc = "grounded" /\ MentionsAtLeastOneMessage(RetryError)
                                THEN pc' = "human_only" /\ UNCHANGED error
                                ELSE Raise(RetryError)
    /\ UNCHANGED << agent, stage, iteration, final_response, tool_args, toolAttempt,
                    toolWaits, lastTool, nTool, noImageRun, image_b64, nCycles >>

\* The node running alone: nothing is appended while the call is open.
RetryAttempt ==
    /\ pc \in Sites
    /\ RetryAttemptStep(<< >>)

\* A loop that allows one tool invocation too many.
ToolRetryExhausted_OneMore(made) == made > ToolRetries

\* `for attempt in range(retries)` of invoke_tool_with_retry is over.
ToolRetryExhausted(made) == made >= ToolRetries

\* One tool_fn.invoke(tool_args) of the pattern agent: the first for a call
\* (after tool_args["kline_data"] = copy.deepcopy(...) and the tool lookup) or
\* a re-invocation by invoke_tool_with_retry, which passes the same tool_args.
PatternTool ==
    /\ UNCHANGED retryRuns
    /\ agent = "pattern"
    /\ pc = "tools"
    /\ LET call == calls[callIdx]
           args == IF toolAttempt = 0
                   THEN SetKline(call.args, DeepCopy(state.kline_data))
                   ELSE tool_args
           given == RecordArgs(messages, call.id, args)
       IN IF toolAttempt = 0 /\ ~ToolFound(agent, call.name)
          THEN /\ Raise(StopIteration)
               /\ tool_args' = args
               /\ calls' = WithArgs(calls, call.id, args)
               /\ messages' = given
               /\ state' = StateAfterAppend(given)
               /\ UNCHANGED << aliased, callIdx, toolAttempt,
                               toolWaits, lastTool, nTool, noImageRun, image_b64, nCycles >>
          ELSE \E result \in ToolOutcomes(agent), mut \in MutOptions(given) :
                 LET after == ArgsAfterTool(args, mut)
                     seen == RecordArgs(messages, call.id, after)
                 IN
                 /\ tool_args' = after
                 /\ calls' = WithArgs(calls, call.id, after)
                 /\ lastTool' = LogEntry(call.name, args, result)
                 /\ nTool' = nTool + 1
                 /\ noImageRun' = NoImageRunAfter(noImageRun, result)
                 /\ nCycles' = IF callIdx = 1 /\ toolAttempt = 0
                               THEN nCycles + 1 ELSE nCycles
                 /\ IF result = ToolRaises
                    THEN /\ Raise(ToolError)
                         /\ toolAttempt' = toolAttempt + 1
                         /\ messages' = seen
                         /\ state' = StateAfterAppend(seen)
                         /\ UNCHANGED << aliased, callIdx, toolWaits, image_b64 >>
                    ELSE IF Truthy(Get(result, "pattern_image"))
                    THEN LET ms == Append(seen,
                                          ToolMessage(call.id, JsonDumps(result)))
                         IN /\ image_b64' = Get(result, "pattern_image")
                            /\ toolAttempt' = 0
                            /\ toolWaits' = 0
                            /\ UNCHANGED error
                            /\ IF callIdx < Len(calls)
                               THEN /\ callIdx' = callIdx + 1
                                    /\ messages' = ms
                                    /\ state' = StateAfterAppend(ms)
                                    /\ UNCHANGED << pc, aliased >>
                               ELSE /\ callIdx' = 0
                                    /\ AfterPhaseA(Get(result, "pattern_image"), ms)
                    ELSE /\ toolAttempt' = toolAttempt + 1
                         /\ toolWaits' = toolWaits + 1
                         /\ messages' = seen
                         /\ state' = StateAfterAppend(seen)
                         /\ UNCHANGED << aliased, callIdx, image_b64 >>
                         /\ IF ToolRetryExhausted(toolAttempt + 1)
                            THEN Raise(ImageError)
                            ELSE UNCHANGED << pc, error >>
    /\ UNCHANGED << agent, stage, iteration, final_response, env, lastCall,
                    nChain, nGraph, out >>

\* One pass of `for call in ai_response.tool_calls:` of the trend agent.
TrendTool ==
    /\ UNCHANGED retryRuns
    /\ agent = "trend"
    /\ pc = "tools"
    /\ LET call == calls[callIdx]
           args == SetKline(call.args, DeepCopy(state.kline_data))
           given == RecordArgs(messages, call.id, args)
       IN IF ~ToolFound(agent, call.name)
          THEN /\ Raise(StopIteration)
               /\ tool_args' = args
               /\ calls' = WithArgs(calls, call.id, args)
               /\ messages' = given
               /\ state' = StateAfterAppend(given)
               /\ UNCHANGED << aliased, callIdx, lastTool, nTool, noImageRun,
                               image_b64, nCycles >>
          ELSE \E result \in ToolOutcomes(agent), mut \in MutOptions(given) :
                 LET after == ArgsAfterTool(args, mut)
                     seen == RecordArgs(messages, call.id, after)
                 IN
                 /\ tool_args' = after
                 /\ calls' = WithArgs(calls, call.id, after)
                 /\ lastTool' = LogEntry(call.name, args, result)
                 /\ nTool' = nTool + 1
                 /\ noImageRun' = NoImageRunAfter(noImageRun, result)
                 /\ nCycles' = IF callIdx = 1 THEN nCycles + 1 ELSE nCycles
                 /\ IF result = ToolRaises
                    THEN /\ Raise(ToolError)
                         /\ messages' = seen
                         /\ state' = StateAfterAppend(seen)
                         /\ UNCHANGED << aliased, callIdx, image_b64 >>
                    ELSE LET ms == Append(seen,
                                          ToolMessage(call.id, JsonDumps(result)))
                             img == Get(result, "trend_image")
                         IN /\ image_b64' = img
                            /\ UNCHANGED error
                            /\ IF callIdx < Len(calls)
                               THEN /\ callIdx' = callIdx + 1
                                    /\ messages' = ms
                                    /\ state' = StateAfterAppend(ms)
                                    /\ UNCHANGED << pc, aliased >>
                               ELSE /\ callIdx' = 0
                                    /\ AfterPhaseA(img, ms)
    /\ UNCHANGED << agent, stage, iteration, final_response, toolAttempt,
                    toolWaits, env, lastCall, nChain, nGraph, out >>

(***************************************************************************)
(* trade_decision_node                                                     *)
(***************************************************************************)
\* state[key] raises KeyError when the mapping has no such key.
HasKey(st, key) == st[key] # Absent

\* A read of the trend report by state.get, which never raises.
ReportsPresent_TrendOptional(st) ==
    /\ HasKey(st, "indicator_report")
    /\ HasKey(st, "pattern_report")

\* The three subscript reads at the head of the node all succeed.
ReportsPresent(st) ==
    /\ HasKey(st, "indicator_report")
    /\ HasKey(st, "pattern_report")
    /\ HasKey(st, "trend_report")

KeyError == [type |-> "KeyError", text |-> "report"]

\* The f-string prompt: the fixed policy text around the five values read.
DecisionPrompt(st) ==
    [stock_name |-> st.stock_name, time_frame |-> st.time_frame,
     indicator_report |-> st.indicator_report,
     pattern_report |-> st.pattern_report, trend_report |-> st.trend_report]

\* Texts the backend can answer the decision prompt with.
DecisionTexts ==
    {"{decision:LONG,rr:1.5}", "{decision:SHORT,rr:1.2}", "{decision:SHORT,rr:1.8}",
     "{decision:HOLD,rr:1.5}", "{decision:LONG,rr:2.5}", "{decision:LONG,rr:1.1}",
     "no json", ""}

\* The whole node: the reads, the single llm.invoke(prompt), the return.
DecisionRun ==
    /\ UNCHANGED retryRuns
    /\ agent = "decision"
    /\ pc = "start"
    /\ IF ~ReportsPresent(state)
       THEN /\ Raise(KeyError)
            /\ UNCHANGED << lastCall, nGraph, out >>
       ELSE /\ lastCall' = [llm |-> "llm", messages |-> << DecisionPrompt(state) >>]
            /\ nGraph' = nGraph + 1
            /\ \/ \E e \in BackendErrors : Raise(e) /\ UNCHANGED out
               \/ \E text \in DecisionTexts :
                    /\ pc' = "done"
                    /\ out' = [returned |-> TRUE,
                               final_trade_decision |-> text,
                               messages |-> << AIMessage(text, << >>) >>,
                               decision_prompt |-> DecisionPrompt(state)]
                    /\ UNCHANGED error
    /\ UNCHANGED << agent, state, messages, aliased, stage, iteration,
                    final_response, calls, callIdx, tool_args, toolAttempt,
                    toolWaits, lastTool, nTool, noImageRun, image_b64, env, nChain, nCycles >>

Next ==
    \/ IndicatorStart
    \/ IndicatorInvoke
    \/ IndicatorTool
    \/ AgentStart
    \/ RetryAttempt
    \/ PatternTool
    \/ TrendTool
    \/ DecisionRun

Spec == Init /\ [][Next]_vars

(***************************************************************************)
(* Properties.                                                             *)
(***************************************************************************)
Finished == pc \in {"done", "failed"}
ArtifactAgents == {"pattern", "trend"}

\* C1: every tool invocation of the indicator, pattern and trend agents,
\* re-invocations by invoke_tool_with_retry included, is handed a kline_data
\* equal to the state's kline_data at the time of the call, whatever the
\* backend supplied and whatever earlier tool invocations did to their
\* arguments.
C1_ToolSeesAuthoritativeKline ==
    nTool > 0 => lastTool.seen = state.kline_data

\* A natural number that every step of an indicator run makes smaller.
IndicatorMeasure ==
    IF Finished THEN 0
    ELSE 1 + (IF pc = "start" THEN 1 ELSE 0)
           + (max_iterations + 1 - nChain) * (MaxToolCalls + 1)
           + (IF pc = "tools" THEN Len(calls) - callIdx + 1 ELSE 0)

\* C2 as stated: one run of the indicator's loop makes at most 5
\* cycles of a backend invocation followed by execution of the tools that
\* response requested.
C2_AtMostFiveCycles ==
    agent = "indicator" => nCycles <= max_iterations

\* C2 as amended: one run of the indicator agent always terminates (each step
\* lowers a natural-valued measure) and makes at most 6 cycles and at most
\* 6 backend invocations: the initial request of Step 1 plus the
\* max_iterations = 5 re-runs of Step 3.
C2_TerminatesWithinSixCycles ==
    [][agent = "indicator" =>
            /\ IndicatorMeasure' < IndicatorMeasure
            /\ IndicatorMeasure' >= 0
            /\ nCycles' <= max_iterations + 1
            /\ nChain' <= max_iterations + 1]_vars

C2_SixCyclesReached ==
    agent = "indicator" /\ pc = "done" /\ nCycles = max_iterations + 1

\* The report field of the mapping an artifact agent returned.
ArtifactReport == IF agent = "pattern" THEN out.pattern_report ELSE out.trend_report

\* C3: an invoke_with_retry call whose operation failed k < retries times and
\* then succeeded returned that result after exactly k+1 attempts and exactly
\* k sleeps; one whose operation failed every time raised the "exceeded
\* maximum retry attempts" error after exactly `retries` attempts, and the
\* node made no attempt after it.
C3_RetryEnvelope ==
    agent \in ArtifactAgents =>
        /\ env.attempts <= Retries(agent)
        /\ env.status = "returned" =>
                /\ env.fails < Retries(agent)
                /\ env.attempts = env.fails + 1
                /\ env.waits = env.fails
                /\ env.result # NoResponse
                /\ (pc = "done" => ArtifactReport = env.result.content)
        /\ env.status = "raised" =>
                /\ env.fails = Retries(agent)
                /\ env.attempts = Retries(agent)
                /\ error = RetryError
                /\ pc = "failed"

C3_SuccessAfterTwoFailures ==
    /\ agent = "trend"
    /\ env.status = "returned"
    /\ env.fails = Retries(agent) - 1
    /\ env.waits = Retries(agent) - 1

\* C4: when the grounded call (system turn + human turn) of Phase B has
\* failed with an error whose text contains "at least one message", the agent
\* goes on to call the backend with the human turn alone, the error is not
\* surfaced, and the content of that call's answer is the report.
C4_HumanOnlyRetryAfterRejection ==
    agent \in ArtifactAgents =>
        /\ (/\ env.site = "grounded"
            /\ env.status = "raised"
            /\ MentionsAtLeastOneMessage(env.lastError))
              => (pc = "human_only" /\ error = NoError)
        /\ (env.site = "human_only" /\ env.status = "returned")
              => (pc = "done" /\ ArtifactReport = env.result.content)

\* C5: in the pattern agent's Phase A, once the tool has answered three
\* times in a row without a pattern_image, the tool was invoked exactly 3
\* times for that request (exactly 3 times in the run when it is the first
\* request), the node has raised the "repeated retries failed to produce
\* image" error, and there is no Phase B call and no pattern_report.
C5_ThreeMissingImagesAbort ==
    agent = "pattern" =>
        /\ noImageRun <= ToolRetries
        /\ noImageRun = ToolRetries =>
                /\ pc = "failed"
                /\ error = ImageError
                /\ toolAttempt = ToolRetries
                /\ (callIdx = 1 => nTool = ToolRetries)
                /\ nGraph = 0
                /\ lastCall.llm # "graph_llm"
                /\ out = NoOutput

C5_ImageErrorRaised ==
    /\ agent = "pattern"
    /\ noImageRun = ToolRetries
    /\ nTool = ToolRetries
    /\ error = ImageError

\* C6: when state.pattern_image (resp. state.trend_image) is populated at the
\* start of the pattern (resp. trend) agent, no tool is invoked, the
\* tool-bound chain is never invoked, and every grounded call embeds exactly
\* the supplied image.
C6_SuppliedImageSkipsPhaseA ==
    (agent \in ArtifactAgents /\ Truthy(state[ImageKey(agent)])) =>
        /\ nTool = 0
        /\ nChain = 0
        /\ pc \notin {"phaseA", "tools", "fallback"}
        /\ nGraph > 0 =>
                /\ lastCall.llm = "graph_llm"
                /\ \E i \in 1..Len(lastCall.messages) :
                        lastCall.messages[i].image = state[ImageKey(agent)]
                /\ \A i \in 1..Len(lastCall.messages) :
                        lastCall.messages[i].image \in {None, state[ImageKey(agent)]}

C6_SuppliedImageAnalysed ==
    /\ agent = "trend"
    /\ state.trend_image = "IMG0"
    /\ pc = "done"
    /\ nGraph > 0

\* C7: whenever the indicator agent returns, indicator_report is non-empty,
\* non-whitespace text.
C7_IndicatorReportNonBlank ==
    (agent = "indicator" /\ pc = "done") =>
        /\ out.indicator_report \notin {None, Absent, ""}
        /\ out.indicator_report # " "

\* C8: whenever the pattern or the trend agent completes, its report field
\* is non-empty text.
C8_ArtifactReportNonEmpty ==
    (agent \in ArtifactAgents /\ pc = "done") =>
        ArtifactReport \notin {None, Absent, ""}

\* How a reader of the output contract parses a decision text: the value of
\* its "decision" key, and ten times the value of its "risk_reward_ratio".
ParsedDecision(text) ==
    CASE text \in {"{decision:LONG,rr:1.5}", "{decision:LONG,rr:2.5}",
                   "{decision:LONG,rr:1.1}"} -> "LONG"
      [] text \in {"{decision:SHORT,rr:1.2}", "{decision:SHORT,rr:1.8}"} -> "SHORT"
      [] text = "{decision:HOLD,rr:1.5}" -> "HOLD"
      [] OTHER -> None

ParsedRiskRewardTenths(text) ==
    CASE text \in {"{decision:LONG,rr:1.5}", "{decision:HOLD,rr:1.5}"} -> 15
      [] text = "{decision:LONG,rr:2.5}" -> 25
      [] text = "{decision:LONG,rr:1.1}" -> 11
      [] text = "{decision:SHORT,rr:1.2}" -> 12
      [] text = "{decision:SHORT,rr:1.8}" -> 18
      [] OTHER -> 0

\* C9: the final_trade_decision the decision node emits is an object whose
\* decision is LONG or SHORT, never HOLD, and whose risk_reward_ratio lies in
\* [1.2, 1.8], whatever the backend answered.
C9_DecisionWithinContract ==
    (agent = "decision" /\ pc = "done") =>
        /\ ParsedDecision(out.final_trade_decision) \in {"LONG", "SHORT"}
        /\ ParsedRiskRewardTenths(out.final_trade_decision) >= 12
        /\ ParsedRiskRewardTenths(out.final_trade_decision) <= 18

\* C10: the decision node invokes the backend and emits final_trade_decision
\* only when indicator_report, pattern_report and trend_report are all
\* present in the state; when one is missing the run ends in an error, with
\* no backend invocation and nothing emitted.
C10_DecisionNeedsAllReports ==
    agent = "decision" =>
        LET allPresent == /\ state.indicator_report # Absent
                          /\ state.pattern_report # Absent
                          /\ state.trend_report # Absent
        IN /\ (nGraph > 0 \/ lastCall # NoCall \/ out # NoOutput) => allPresent
           /\ (~allPresent /\ pc # "start") =>
                    /\ pc = "failed"
                    /\ error = KeyError
                    /\ nGraph = 0
                    /\ out = NoOutput
           /\ (pc = "done" =>
                    /\ out.decision_prompt.indicator_report = state.indicator_report
                    /\ out.decision_prompt.pattern_report = state.pattern_report
                    /\ out.decision_prompt.trend_report = state.trend_report)

C10_MissingTrendReportFails ==
    /\ agent = "decision"
    /\ state.indicator_report # Absent
    /\ state.pattern_report # Absent
    /\ state.trend_report = Absent
    /\ pc = "failed"
    /\ error = KeyError

\* C11: when the call the for-loop is at names a tool that is not in the
\* agent's tool list, the next step of the agent fails with the lookup's
\* error: no tool is invoked for that request, no retry envelope runs for it,
\* and nothing is returned.
C11_UnknownToolFailsFast ==
    [][(/\ agent \in {"indicator", "pattern", "trend"}
        /\ pc = "tools"
        /\ calls[callIdx].name \notin Tools(agent))
          => (/\ pc' = "failed"
              /\ error' = StopIteration
              /\ nTool' = nTool
              /\ lastTool' = lastTool
              /\ toolAttempt' = toolAttempt
              /\ toolWaits' = toolWaits
              /\ env' = env
              /\ nChain' = nChain
              /\ nGraph' = nGraph
              /\ out' = NoOutput)]_vars

C11_UnknownSecondRequestFailed ==
    /\ agent = "pattern"
    /\ error = StopIteration
    /\ pc = "failed"
    /\ callIdx > 1
    /\ nTool > 0

(***************************************************************************)
(* The three analysis agents over one Shared State Record.  The agent      *)
(* under observation runs as above; an agent running concurrently with it  *)
(* is present through its writes to the one object they share, the list    *)
(* held in state["messages"]: the pattern agent appends its Phase-A        *)
(* response to that list (messages = state.get("messages", []);            *)
(* messages.append(ai_response)), and so does the indicator agent when the *)
(* list was not empty at its start.                                        *)
(***************************************************************************)
PeerTurn == AIMessage("peer", << >>)

PeerTurnsIn(ms) == Cardinality({i \in 1..Len(ms) : ms[i] = PeerTurn})

\* A concurrently running agent that holds the state's list has a response
\* to append to it.  (The indicator agent holds the list only when it was not
\* empty at its start.)
PeerMayAppend ==
    /\ agent \in {"indicator", "pattern", "trend"}
    /\ ~Finished
    /\ PeerTurnsIn(state.messages) < MaxPeerTurns
    /\ agent = "pattern" => state.messages # << >>

\* messages.append(ai_response) executed by a concurrently running agent that
\* holds the state's list, between two steps of the observed agent.
PeerAppend ==
    /\ PeerMayAppend
    /\ state' = [state EXCEPT !.messages = Append(@, PeerTurn)]
    /\ messages' = IF aliased THEN Append(messages, PeerTurn) ELSE messages
    /\ UNCHANGED << agent, pc, aliased, stage, iteration, final_response, calls,
                    callIdx, tool_args, toolAttempt, toolWaits, lastTool, nTool,
                    noImageRun, image_b64, env, lastCall, nChain, nGraph, nCycles,
                    error, out, retryRuns >>

\* The same append made while a backend call of the observed agent is open,
\* the observed agent holding the state's list.
IndicatorInvokeDuringPeerAppend ==
    /\ PeerMayAppend
    /\ aliased
    /\ IndicatorInvokeStep(<< PeerTurn >>)

RetryAttemptDuringPeerAppend ==
    /\ PeerMayAppend
    /\ aliased
    /\ RetryAttemptStep(<< PeerTurn >>)

SharedNext ==
    \/ Next
    \/ PeerAppend
    \/ IndicatorInvokeDuringPeerAppend
    \/ RetryAttemptDuringPeerAppend

SpecShared == Init /\ [][SharedNext]_vars

\* C12: in every interleaving of the three analysis agents over one Shared
\* State Record, the transcript an agent sends to its backend and the
\* transcript it returns hold no turn appended by another agent.
C12_NoForeignTurnObserved ==
    agent \in {"indicator", "pattern", "trend"} =>
        /\ PeerTurnsIn(lastCall.messages) = 0
        /\ pc = "done" => PeerTurnsIn(out.messages) = 0

\* C13: the mapping an artifact agent returns after Phase A generated the
\* image holds that image under the agent's image key (pattern_image for the
\* pattern agent, trend_image for the trend agent), equal to the image the
\* grounded call of Phase B was sent; and the trend agent's
\* trend_image_description is not None exactly when it returns an image.
C13_OutputCarriesArtifact ==
    (agent \in ArtifactAgents /\ pc = "done") =>
        /\ (nTool > 0 /\ Truthy(image_b64)) =>
                /\ Get(out, ImageKey(agent)) = image_b64
                /\ lastCall.llm = "graph_llm"
                /\ lastCall.messages[Len(lastCall.messages)].image = image_b64
        /\ agent = "trend" =>
                (out.trend_image_description # None <=> Truthy(out.trend_image))

\* C14: once a response of the indicator's tool-bound chain carries no tool
\* call, the run is over: the node has returned, no later backend invocation
\* was made, and when that response has text the report is that text.  The
\* response in question is the turn appended right after the transcript of
\* the latest backend invocation, so the first response of the run is
\* covered like any later one.
C14_NoToolResponseEndsLoop ==
    (/\ agent = "indicator"
     /\ lastCall.llm = "chain"
     /\ Len(messages) > Len(lastCall.messages)
     /\ messages[Len(lastCall.messages) + 1].kind = "ai"
     /\ messages[Len(lastCall.messages) + 1].tool_calls = << >>)
        => /\ pc = "done"
           /\ Truthy(Strip(messages[Len(lastCall.messages) + 1].content))
                => out.indicator_report = messages[Len(lastCall.messages) + 1].content

\* A turn the documented backward scan accepts: non-blank text, and not a
\* turn that requests tool invocations.
DocumentedQualifies(m) ==
    /\ m.image = None
    /\ Truthy(Strip(m.content))
    /\ m.tool_calls = << >>

\* C15: when the final response of an indicator run has empty or
\* whitespace-only content, the report is the content of the most recent
\* returned turn that has non-blank text and requests no tool invocation
\* (assistant turns with text included), and the fixed default string only
\* when there is no such turn.
C15_FallbackTakesLatestTextTurn ==
    (/\ agent = "indicator"
     /\ pc = "done"
     /\ final_response # NoResponse
     /\ ~Truthy(Strip(final_response.content)))
        => LET ms == out.messages
               hits == {i \in 1..Len(ms) : DocumentedQualifies(ms[i])}
           IN out.indicator_report =
                IF hits = {} THEN DefaultReport ELSE ms[Max(hits)].content

\* In the transcript ms every assistant turn that requests n >= 1 tool
\* invocations is followed by n tool-result turns, the j-th tagged with the
\* identifier of the j-th request, and by no further tool-result turn.  A
\* transcript still being extended (complete = FALSE) may end inside such a
\* run of results.
RequestsAnswered(ms, complete) ==
    \A i \in 1..Len(ms) :
        (ms[i].kind = "ai" /\ ms[i].tool_calls # << >>) =>
            LET n == Len(ms[i].tool_calls)
            IN /\ \A j \in 1..n :
                    IF i + j <= Len(ms)
                    THEN /\ ms[i + j].kind = "tool"
                         /\ ms[i + j].tool_call_id = ms[i].tool_calls[j].id
                    ELSE ~complete
               /\ i + n + 1 <= Len(ms) => ms[i + n + 1].kind # "tool"

\* C16: in every transcript of an analysis agent (the one it is extending,
\* the one it sent with its latest backend invocation, the one it returns) a
\* response carrying n >= 1 tool requests is followed immediately by exactly
\* n tool-result turns, in request order, each tagged with the identifier of
\* its request; the transcript sent to the backend and the transcript
\* returned hold all n of them.
C16_RequestsFollowedByResults ==
    agent \in {"indicator", "pattern", "trend"} =>
        /\ RequestsAnswered(messages, FALSE)
        /\ RequestsAnswered(lastCall.messages, TRUE)
        /\ pc = "done" => RequestsAnswered(out.messages, TRUE)

\* C17: a pattern or trend run whose Phase A ended without an image makes no
\* graph_llm call at all: grounded calls are made only with an image in
\* hand.  Its fallback call goes to the tool-bound chain with the Phase-A
\* transcript, under the retry envelope (at most `retries` attempts), and
\* the content of that call's answer is the report returned.
C17_NoArtifactFallsBackToChain ==
    agent \in ArtifactAgents =>
        /\ (pc \in {"grounded", "human_only"} \/ nGraph > 0) => Truthy(image_b64)
        /\ pc = "fallback" => (~Truthy(image_b64) /\ nGraph = 0)
        /\ env.site = "fallback" =>
                /\ ~Truthy(image_b64)
                /\ nGraph = 0
                /\ lastCall = [llm |-> "chain", messages |-> messages]
                /\ env.attempts <= Retries(agent)
                /\ pc \in {"fallback", "done", "failed"}
                /\ pc = "failed" => (error = RetryError /\ env.attempts = Retries(agent))
                /\ pc = "done" =>
                        /\ env.status = "returned"
                        /\ ArtifactReport = env.result.content
                        /\ out.messages = Append(messages, env.result)

C17_TrendFallbackAfterImagelessTool ==
    /\ agent = "trend"
    /\ pc = "done"
    /\ env.site = "fallback"
    /\ nTool > 0
    /\ env.fails > 0
    /\ out.trend_report = "txt"

\* C18: an exception raised by a tool invocation is retried like a backend
\* exception: it leaves the node only after the bounded number of attempts
\* at that invocation, with a wait after each failed attempt before the last.
C18_ToolExceptionRetried ==
    (agent \in {"indicator", "pattern", "trend"} /\ error = ToolError) =>
        /\ toolAttempt >= ToolRetries
        /\ toolWaits >= ToolRetries - 1

\* The report fields of the Shared State Record and the agent owning each.
ReportOwner ==
    [indicator_report |-> "indicator", pattern_report |-> "pattern",
     trend_report |-> "trend"]

\* C19: no step of an agent run, whether the run goes on to succeed or to
\* fail, changes the state's kline_data, stock_name or time_frame (nor any
\* other field of the state but the messages list), and the mapping a node
\* returns holds no report field owned by another agent.
C19_FrameOfAgentRun ==
    [][/\ \A k \in (DOMAIN state) \ {"messages"} : state'[k] = state[k]
       /\ pc' = "done" =>
            \A f \in DOMAIN ReportOwner :
                f \in DOMAIN out' => ReportOwner[f] = agent
       /\ pc' = "failed" => out' = NoOutput]_vars

C19_TrendDoneAfterMutatingTool ==
    /\ agent = "trend"
    /\ pc = "done"
    /\ nTool > 0
    /\ tool_args.kline_data # state.kline_data
    /\ "trend_report" \in DOMAIN out

\* The transcript ms holds a tool-result turn that carries a trend image.
ImageResultIn(ms) ==
    \E i \in 1..Len(ms) :
        /\ ms[i].kind = "tool"
        /\ ms[i].content = JsonDumps([trend_image |-> "IMG1"])

\* C20: in Phase A of the trend agent an image once obtained is kept: when
\* one of the tool invocations of the response returned a trend_image, the
\* agent, once past the tool loop, holds an image, does not take the
\* fallback, and a finished run returns a non-null trend_image.
C20_TrendImageNeverDiscarded ==
    (/\ agent = "trend"
     /\ pc \in {"fallback", "done"}
     /\ ImageResultIn(IF pc = "done" THEN out.messages ELSE messages))
        => /\ pc # "fallback"
           /\ Truthy(image_b64)
           /\ pc = "done" => Truthy(out.trend_image)

(***************************************************************************)
(* The two invoke_with_retry helpers (pattern_agent.py, trend_agent.py)    *)
(* side by side: both are handed an operation that behaves by the same     *)
(* script of outcomes, its i-th call succeeding, raising RateLimitError or *)
(* raising some other exception.                                           *)
(***************************************************************************)
Outcomes == {"success", "rate_limit", "exception"}

Scripts == [1..MaxOutcomes -> Outcomes]

FreshRun == [attempts |-> 0, waits |-> 0, status |-> "running",
             result |-> None, error |-> NoError]

\* One pass of `for attempt in range(retries):` of agent a's helper, the
\* operation's outcome on this call being o.  A success returns what the
\* operation returned on this call; both except clauses of a helper do the
\* same; after the last pass the helper raises RuntimeError.
HelperPass(a, run, o) ==
    LET attempt == run.attempts
        made == attempt + 1
        slept == IF SleepsAfterFailure(a, attempt) THEN run.waits + 1 ELSE run.waits
    IN IF o = "success"
       THEN [run EXCEPT !.attempts = made, !.status = "returned",
                        !.result = << "value", made >>]
       ELSE IF RetryExhausted(a, made)
       THEN [run EXCEPT !.attempts = made, !.waits = slept, !.status = "raised",
                        !.error = RetryError]
       ELSE [run EXCEPT !.attempts = made, !.waits = slept]

InitRetry ==
    /\ agent = "pattern"
    /\ state = BaseState
    /\ pc = "start"
    /\ messages = << >>
    /\ aliased = FALSE
    /\ stage = "first"
    /\ iteration = 0
    /\ final_response = NoResponse
    /\ calls = << >>
    /\ callIdx = 0
    /\ tool_args = [period |-> 0]
    /\ toolAttempt = 0
    /\ toolWaits = 0
    /\ lastTool = NoTool
    /\ nTool = 0
    /\ noImageRun = 0
    /\ image_b64 = None
    /\ env = FreshEnv
    /\ lastCall = NoCall
    /\ nChain = 0
    /\ nGraph = 0
    /\ nCycles = 0
    /\ error = NoError
    /\ out = NoOutput
    /\ \E sc \in Scripts :
          retryRuns = [script |-> sc, pattern |-> FreshRun, trend |-> FreshRun]

\* The next pass of the pattern agent's helper.
PatternHelperPass ==
    /\ retryRuns # NoRetryRuns
    /\ retryRuns.pattern.status = "running"
    /\ retryRuns.pattern.attempts < Len(retryRuns.script)
    /\ retryRuns' = [retryRuns EXCEPT !.pattern =
            HelperPass("pattern", @, retryRuns.script[@.attempts + 1])]
    /\ UNCHANGED << agent, pc, state, messages, aliased, stage, iteration,
                    final_response, calls, callIdx, tool_args, toolAttempt,
                    toolWaits, lastTool, nTool, noImageRun, image_b64, env,
                    lastCall, nChain, nGraph, nCycles, error, out >>

\* The next pass of the trend agent's helper.
TrendHelperPass ==
    /\ retryRuns # NoRetryRuns
    /\ retryRuns.trend.status = "running"
    /\ retryRuns.trend.attempts < Len(retryRuns.script)
    /\ retryRuns' = [retryRuns EXCEPT !.trend =
            HelperPass("trend", @, retryRuns.script[@.attempts + 1])]
    /\ UNCHANGED << agent, pc, state, messages, aliased, stage, iteration,
                    final_response, calls, callIdx, tool_args, toolAttempt,
                    toolWaits, lastTool, nTool, noImageRun, image_b64, env,
                    lastCall, nChain, nGraph, nCycles, error, out >>

NextRetry == PatternHelperPass \/ TrendHelperPass

SpecRetry == InitRetry /\ [][NextRetry]_vars

\* C21: run on an operation with the same sequence of outcomes, the pattern
\* agent's and the trend agent's invoke_with_retry, once both are over, have
\* made the same number of attempts and the same number of waits, and ended
\* alike: both returned the same result or both raised the same error.
C21_RetryHelpersEquivalent ==
    (/\ retryRuns # NoRetryRuns
     /\ retryRuns.pattern.status # "running"
     /\ retryRuns.trend.status # "running")
        => /\ retryRuns.pattern.attempts = retryRuns.trend.attempts
           /\ retryRuns.pattern.waits = retryRuns.trend.waits
           /\ retryRuns.pattern.status = retryRuns.trend.status
           /\ retryRuns.pattern.result = retryRuns.trend.result
           /\ retryRuns.pattern.error = retryRuns.trend.error

\* C21 as amended: on the same sequence of outcomes the two helpers make the
\* same number of attempts and end alike (the same result returned, or the
\* same error raised).  They wait equally often, once per failed attempt,
\* when the operation succeeds in the end; when every attempt fails the
\* pattern agent's helper has waited after the last failure too, `retries`
\* times, one wait more than the trend agent's `retries - 1`.
C21_HelpersAgreeButForLastWait ==
    (/\ retryRuns # NoRetryRuns
     /\ retryRuns.pattern.status # "running"
     /\ retryRuns.trend.status # "running")
        => /\ retryRuns.pattern.attempts = retryRuns.trend.attempts
           /\ retryRuns.pattern.status = retryRuns.trend.status
           /\ retryRuns.pattern.result = retryRuns.trend.result
           /\ retryRuns.pattern.error = retryRuns.trend.error
           /\ IF retryRuns.pattern.status = "returned"
              THEN /\ retryRuns.pattern.waits = retryRuns.trend.waits
                   /\ retryRuns.pattern.waits = retryRuns.pattern.attempts - 1
                   /\ retryRuns.pattern.result = << "value", retryRuns.pattern.attempts >>
              ELSE /\ retryRuns.pattern.attempts = PatternRetries
                   /\ retryRuns.pattern.error = RetryError
                   /\ retryRuns.pattern.waits = PatternRetries
                   /\ retryRuns.trend.waits = TrendRetries - 1

C21_BothRaisedAfterMixedFailures ==
    /\ retryRuns # NoRetryRuns
    /\ retryRuns.pattern.status = "raised"
    /\ retryRuns.trend.status = "raised"
    /\ retryRuns.script[1] = "rate_limit"
    /\ retryRuns.script[2] = "exception"
    /\ retryRuns.pattern.waits = 3
    /\ retryRuns.trend.waits = 2

====
